---- MODULE Spec2Model ----
(***************************************************************************)
(* sqlalchemist: DataSource (connection-pool owner), SqlSession (one       *)
(* borrowed connection plus its engine session) and the AbstractDAO row    *)
(* mappers.  The SQL engine library is an external collaborator: each call *)
(* into it is modelled by the outcomes it can produce (success, an engine  *)
(* error, or a failure that is not an engine error).                       *)
(***************************************************************************)
EXTENDS Integers, Sequences, FiniteSets, TLC

\* ---------------------------------------------------------------- bounds
MaxSessions == 1
MaxPoolSessions == 2
MaxStmts == 1
MaxCols == 2
MaxRows == 3

\* ------------------------------------------------------- values and errors
None == "None"
NoConn == 0

ColNames == {"id", "name"}
CellValues == {1, 2}

Error(type, message, original, code) ==
    [type |-> type, message |-> message, original |-> original, code |-> code]

NoError == Error(None, None, None, None)

\* sqlalchemy.exc.SQLAlchemyError subclasses with their .code
OperationalError == Error("OperationalError", "connection lost", None, "e3q8")
ProgrammingError == Error("ProgrammingError", "bad statement", None, "f405")
ResourceClosedError == Error("ResourceClosedError", "This Connection is closed", None, None)
ArgumentError == Error("ArgumentError", "could not parse URL", None, None)
EngineErrors == {OperationalError, ProgrammingError, ResourceClosedError, ArgumentError}

\* failures that are not SQLAlchemyError
AttributeError == Error("AttributeError", "NoneType has no attribute", None, None)
TypeError == Error("TypeError", "bad argument", None, None)
BodyError == Error("ValueError", "raised by the scope body", None, None)

\* "except SQLAlchemyError as e"
IsEngineError(e) == e \in EngineErrors

DataSourceError(message, original, code) ==
    Error("DataSourceError", message, original, code)

Return(v) == [kind |-> "return", value |-> v, error |-> NoError]
Raise(e) == [kind |-> "raise", value |-> None, error |-> e]

Ev(fn, err) == [fn |-> fn, error |-> err]

Min(a, b) == IF a < b THEN a ELSE b

\* ------------------------------------------------------------- AbstractDAO
\* DictZip pairing the columns with the row read from its far end
DictZip_Misaligned(columns, data) ==
    LET n == Min(Len(columns), Len(data)) IN
    [k \in {columns[i] : i \in 1..n} |->
        data[n + 1 - (CHOOSE i \in 1..n : columns[i] = k)]]

\* dict(zip(columns, data)): zip stops at the shorter sequence; a key that
\* occurs twice keeps the value of its last occurrence.
DictZip(columns, data) ==
    LET n == Min(Len(columns), Len(data))
        last(k) == CHOOSE i \in 1..n :
                      /\ columns[i] = k
                      /\ \A j \in 1..n : columns[j] = k => j <= i
    IN [k \in {columns[i] : i \in 1..n} |-> data[last(k)]]

\* AbstractDAO.map: inp["data"] is read first, inp["columns"] once per row.
Map(inp) ==
    IF "data" \notin DOMAIN inp THEN Raise(Error("KeyError", "data", None, None))
    ELSE IF Len(inp.data) = 0 THEN Return(<<>>)
    ELSE IF "columns" \notin DOMAIN inp
         THEN Raise(Error("KeyError", "columns", None, None))
    ELSE Return([r \in 1..Len(inp.data) |-> DictZip(inp.columns, inp.data[r])])

\* HashMapStep with "values = [row]" for a key already seen: the bucket restarts
HashMapStep_Overwrites(res, row, key_column) ==
    LET k == row[key_column]
        at == {i \in 1..Len(res) : res[i].key = k}
    IN IF at = {} THEN Append(res, [key |-> k, values |-> <<row>>])
       ELSE [res EXCEPT ![CHOOSE i \in at : TRUE].values = <<row>>]

\* HashMapStep putting a key seen for the first time ahead of the earlier keys
HashMapStep_NewBucketFirst(res, row, key_column) ==
    LET k == row[key_column]
        at == {i \in 1..Len(res) : res[i].key = k}
    IN IF at = {} THEN <<[key |-> k, values |-> <<row>>]>> \o res
       ELSE [res EXCEPT ![CHOOSE i \in at : TRUE].values = Append(@, row)]

\* One pass of the loop of AbstractDAO.hash_map.  res is the dict built so far,
\* as its items in insertion order: res.get(row[key_column]) finds the bucket, a
\* missing one is created at the end, and the row is appended to it.
HashMapStep(res, row, key_column) ==
    LET k == row[key_column]
        at == {i \in 1..Len(res) : res[i].key = k}
    IN IF at = {} THEN Append(res, [key |-> k, values |-> <<row>>])
       ELSE [res EXCEPT ![CHOOSE i \in at : TRUE].values = Append(@, row)]

RECURSIVE HashMapLoop(_, _, _, _)
\* "for row in arr": row[key_column] on a row without that key is a KeyError
HashMapLoop(arr, i, res, key_column) ==
    IF i > Len(arr) THEN Return(res)
    ELSE IF key_column \notin DOMAIN arr[i]
         THEN Raise(Error("KeyError", key_column, None, None))
    ELSE HashMapLoop(arr, i + 1, HashMapStep(res, arr[i], key_column), key_column)

\* AbstractDAO.hash_map: cls.map(inp), then the rows bucketed by key_column
HashMap(inp, key_column) ==
    LET arr == Map(inp) IN
    IF arr.kind = "raise" THEN arr ELSE HashMapLoop(arr.value, 1, <<>>, key_column)

\* ------------------------------------------------------------------ state
VARIABLES
    ds_engine,   \* DataSource._engine: None or "engine"
    ds_pool,     \* DataSource._pool: None or "pool"
    disposed,    \* engine side: dispose() has completed on the bound engine
    sessions,    \* the SqlSession objects handed out, in creation order
    conns,       \* the engine's Connection objects, in creation order
    call,        \* the last call made by the caller: the method and the SqlSession
    trace,       \* the engine calls that call made, in order, with outcomes
    result,      \* how that call ended: the value returned or the error raised
    held         \* the QueryResult a DAO was handed by its caller

vars == <<ds_engine, ds_pool, disposed, sessions, conns, call, trace, result, held>>

SessionIds == 1..Len(sessions)

\* the SqlSession objects that have not been garbage-collected
LiveIds == {s \in SessionIds : ~sessions[s].finalized}
ConnIds == 1..Len(conns)
DbapiIds == 1..(Len(conns) + 1)

\* what the engine yields for a row-returning statement
ScenarioColumns == <<"id", "name">>
ScenarioRows == <<(<<1, "a">>), (<<2, "b">>)>>
Tables == {[columns |-> ScenarioColumns, rows |-> ScenarioRows],
           [columns |-> ScenarioColumns, rows |-> <<>>]}

NoHeld == [nothing |-> TRUE]

\* DataSource.is_initialized
IsInitialized == ds_engine # None

\* SqlSession.is_available
IsAvailable(s) ==
    /\ sessions[s].connection # NoConn
    /\ ~conns[sessions[s].connection].closed
    /\ ~conns[sessions[s].connection].invalidated

Call(op, sid) == [op |-> op, sid |-> sid]

\* a call that ends the use of SqlSession s: close(), __exit__(exc...) or __del__,
\* with the number of statements the session has pending when it is made
ScopeCall(op, s, exc) ==
    [op |-> op, sid |-> s, exc |-> exc, pending |-> sessions[s].uncommitted]

NotInitializedMessage == "database connection pool has not been initialized properly"
NotAvailableMessage == "Current connection is not in available state."

\* DataSource.check_initialization: the error it raises, or NoError
CheckInitialization ==
    IF ~IsInitialized
    THEN DataSourceError(NotInitializedMessage, None, None)
    ELSE NoError

\* RequiresInit with the call to check_initialization left out
RequiresInit_Unchecked == NoError

\* requires_init wrapper: the guard runs before the wrapped method
RequiresInit == CheckInitialization

\* SqlSession.check_availability: the error it raises, or NoError
CheckAvailability(s) ==
    IF ~IsAvailable(s)
    THEN DataSourceError(NotAvailableMessage, None, None)
    ELSE NoError

Init ==
    /\ ds_engine = None
    /\ ds_pool = None
    /\ disposed = FALSE
    /\ sessions = <<>>
    /\ conns = <<>>
    /\ call = Call("none", 0)
    /\ trace = <<>>
    /\ result = Return(None)
    /\ held = NoHeld

\* -------------------------------------------------------------- DataSource
\* DataSource.init: create_engine, then bind _engine and _pool (rebinds freely)
DsInit ==
    \E e \in {NoError, ArgumentError} :
        /\ call' = Call("init", 0)
        /\ trace' = <<Ev("create_engine", e)>>
        /\ IF e = NoError
           THEN /\ ds_engine' = "engine"
                /\ ds_pool' = "pool"
                /\ disposed' = FALSE
                /\ result' = Return(None)
           ELSE /\ UNCHANGED <<ds_engine, ds_pool, disposed>>
                /\ result' = Raise(e)
        /\ UNCHANGED <<sessions, conns, held>>

\* the DBAPI connections checked out of the pool by open Connection objects
CheckedOut == {conns[c].dbapi : c \in {x \in ConnIds : ~conns[x].closed}}

\* Engine.connect: the pool hands out a DBAPI connection nobody has checked out
PoolCheckout == CHOOSE d \in DbapiIds \ CheckedOut : \A x \in DbapiIds \ CheckedOut : d <= x

\* GetSession handing out a Connection the DataSource kept from an earlier call
GetSession_SharedConnection(limit) ==
    /\ Len(sessions) < limit
    /\ call' = Call("get_session", 0)
    /\ IF CheckInitialization # NoError
       THEN /\ trace' = <<>>
            /\ result' = Raise(CheckInitialization)
            /\ UNCHANGED <<sessions, conns>>
       ELSE IF \E c \in ConnIds : ~conns[c].closed
       THEN /\ trace' = <<>>
            /\ sessions' = Append(sessions,
                   [data_source |-> "ds",
                    connection |-> CHOOSE c \in ConnIds : ~conns[c].closed,
                    uncommitted |-> 0, committed |-> 0, finalized |-> FALSE])
            /\ result' = Return(Len(sessions) + 1)
            /\ UNCHANGED conns
       ELSE /\ trace' = <<Ev("Engine.connect", NoError)>>
            /\ conns' = Append(conns, [closed |-> FALSE, invalidated |-> FALSE,
                                       dbapi |-> PoolCheckout])
            /\ sessions' = Append(sessions,
                   [data_source |-> "ds", connection |-> Len(conns) + 1,
                    uncommitted |-> 0, committed |-> 0, finalized |-> FALSE])
            /\ result' = Return(Len(sessions) + 1)
    /\ UNCHANGED <<ds_engine, ds_pool, disposed, held>>

\* DataSource.get_session, for a caller that borrows at most limit sessions.
\* Past the guard, self._engine.connect() on an unbound _engine is an
\* AttributeError; the guard is what keeps that branch from being taken.
GetSession(limit) ==
    /\ Len(sessions) < limit
    /\ call' = Call("get_session", 0)
    /\ IF RequiresInit # NoError
       THEN /\ trace' = <<>>
            /\ result' = Raise(RequiresInit)
            /\ UNCHANGED <<sessions, conns>>
       ELSE IF ds_engine = None
       THEN /\ trace' = <<>>
            /\ result' = Raise(AttributeError)
            /\ UNCHANGED <<sessions, conns>>
       ELSE \E e \in {NoError, OperationalError} :
                /\ trace' = <<Ev("Engine.connect", e)>>
                /\ IF e = NoError
                   THEN /\ conns' = Append(conns, [closed |-> FALSE, invalidated |-> FALSE,
                                                   dbapi |-> PoolCheckout])
                        /\ sessions' = Append(sessions,
                               [data_source |-> "ds", connection |-> Len(conns) + 1,
                                uncommitted |-> 0, committed |-> 0, finalized |-> FALSE])
                        /\ result' = Return(Len(sessions) + 1)
                   ELSE /\ UNCHANGED <<sessions, conns>>
                        /\ result' = Raise(e)
    /\ UNCHANGED <<ds_engine, ds_pool, disposed, held>>

\* ReleaseSession calling session.close() with no try around it
ReleaseSession_Unprotected(s) ==
    /\ call' = Call("release_session", s)
    /\ IF CheckInitialization # NoError
       THEN /\ trace' = <<>>
            /\ result' = Raise(CheckInitialization)
            /\ UNCHANGED <<sessions, conns>>
       ELSE IF s \notin SessionIds
       THEN /\ trace' = <<>>
            /\ result' = Raise(AttributeError)
            /\ UNCHANGED <<sessions, conns>>
       ELSE \E e \in {NoError, OperationalError} :
            /\ trace' = <<Ev("Session.close", e)>>
            /\ result' = IF e = NoError THEN Return(None) ELSE Raise(e)
            /\ sessions' = IF e = NoError THEN [sessions EXCEPT ![s].uncommitted = 0]
                           ELSE sessions
            /\ UNCHANGED conns
    /\ UNCHANGED <<ds_engine, ds_pool, disposed, held>>

\* ReleaseSession giving the connection back: session.close() inside the try
ReleaseSession_Closes(s) ==
    /\ call' = Call("release_session", s)
    /\ IF CheckInitialization # NoError
       THEN /\ trace' = <<>>
            /\ result' = Raise(CheckInitialization)
            /\ UNCHANGED <<sessions, conns>>
       ELSE /\ result' = Return(None)
            /\ IF s \notin SessionIds
               THEN /\ trace' = <<>>
                    /\ UNCHANGED <<sessions, conns>>
               ELSE /\ trace' = <<Ev("Session.close", NoError), Ev("Connection.close", NoError)>>
                    /\ sessions' = [sessions EXCEPT ![s].uncommitted = 0]
                    /\ conns' = [conns EXCEPT ![sessions[s].connection].closed = TRUE]
    /\ UNCHANGED <<ds_engine, ds_pool, disposed, held>>

\* DataSource.release_session: drops the local name only
ReleaseSession(s) ==
    /\ call' = Call("release_session", s)
    /\ trace' = <<>>
    /\ result' = IF RequiresInit # NoError THEN Raise(RequiresInit) ELSE Return(None)
    /\ UNCHANGED <<ds_engine, ds_pool, disposed, sessions, conns, held>>

\* DsClose on a DataSource that tracks its sessions and closes their connections
DsClose_ClosesSessions ==
    /\ call' = Call("DataSource.close", 0)
    /\ IF CheckInitialization # NoError
       THEN /\ trace' = <<>>
            /\ result' = Raise(CheckInitialization)
            /\ UNCHANGED <<disposed, conns>>
       ELSE /\ trace' = <<Ev("Engine.dispose", NoError)>>
            /\ result' = Return(None)
            /\ disposed' = TRUE
            /\ conns' = [c \in ConnIds |-> [conns[c] EXCEPT !.closed = TRUE]]
    /\ UNCHANGED <<ds_engine, ds_pool, sessions, held>>

\* DataSource.close: engine.dispose(); _engine stays bound
DsClose ==
    /\ call' = Call("DataSource.close", 0)
    /\ IF RequiresInit # NoError
       THEN /\ trace' = <<>>
            /\ result' = Raise(RequiresInit)
            /\ UNCHANGED disposed
       ELSE /\ trace' = <<Ev("Engine.dispose", NoError)>>
            /\ result' = Return(None)
            /\ disposed' = TRUE
    /\ UNCHANGED <<ds_engine, ds_pool, sessions, conns, held>>

\* --------------------------------------------------------------- SqlSession
\* the engine errors a statement on connection c can end with
StatementErrors(c) ==
    IF conns[c].closed THEN {ResourceClosedError} ELSE {OperationalError, ProgrammingError}

\* a lost connection is marked invalidated by the engine
Invalidate(cs, c, e) ==
    IF e = OperationalError THEN [cs EXCEPT ![c].invalidated = TRUE] ELSE cs

\* engine Session.commit: the pending work becomes durable
SessionCommit(ss, s, e) ==
    IF e = NoError
    THEN [ss EXCEPT ![s].committed = @ + ss[s].uncommitted, ![s].uncommitted = 0]
    ELSE ss

\* engine Session.rollback / Session.close: the pending work is discarded
SessionDiscard(ss, s, e) ==
    IF e = NoError THEN [ss EXCEPT ![s].uncommitted = 0] ELSE ss

\* engine Connection.close: the DBAPI connection goes back to the pool
ConnectionClose(cs, c, e) ==
    IF e = NoError THEN [cs EXCEPT ![c].closed = TRUE] ELSE cs

\* SqlSession.commit: self._session.commit(), errors pass through
Commit(s) ==
    \E e \in {NoError, OperationalError} :
        /\ call' = Call("commit", s)
        /\ trace' = <<Ev("Session.commit", e)>>
        /\ sessions' = SessionCommit(sessions, s, e)
        /\ conns' = Invalidate(conns, sessions[s].connection, e)
        /\ result' = IF e = NoError THEN Return(None) ELSE Raise(e)
        /\ UNCHANGED <<ds_engine, ds_pool, disposed, held>>

\* SqlSession.rollback: self._session.rollback(), errors pass through
Rollback(s) ==
    \E e \in {NoError, OperationalError} :
        /\ call' = Call("rollback", s)
        /\ trace' = <<Ev("Session.rollback", e)>>
        /\ sessions' = SessionDiscard(sessions, s, e)
        /\ conns' = Invalidate(conns, sessions[s].connection, e)
        /\ result' = IF e = NoError THEN Return(None) ELSE Raise(e)
        /\ UNCHANGED <<ds_engine, ds_pool, disposed, held>>

\* The body of SqlSession.close from state (ss, cs): self._session.close() ending
\* with e1, then (if that did not raise) self._connection.close() ending with e2.
\* Any error is re-raised as it is.
CloseBody(ss, cs, s, e1, e2) ==
    LET c == ss[s].connection IN
    IF e1 # NoError
    THEN [sessions |-> ss, conns |-> Invalidate(cs, c, e1),
          trace |-> <<Ev("Session.close", e1)>>, error |-> e1]
    ELSE [sessions |-> SessionDiscard(ss, s, e1),
          conns |-> ConnectionClose(Invalidate(cs, c, e2), c, e2),
          trace |-> <<Ev("Session.close", e1), Ev("Connection.close", e2)>>,
          error |-> e2]

\* Close committing the pending work before it closes, as __exit__ does
Close_Commits(s) ==
    \E e1 \in {NoError, OperationalError} :
    \E e2 \in IF e1 = NoError THEN {NoError, OperationalError} ELSE {NoError} :
        LET r == CloseBody(SessionCommit(sessions, s, NoError), conns, s, e1, e2) IN
        /\ call' = ScopeCall("close", s, NoError)
        /\ trace' = r.trace
        /\ sessions' = r.sessions
        /\ conns' = r.conns
        /\ result' = IF r.error = NoError THEN Return(None) ELSE Raise(r.error)
        /\ UNCHANGED <<ds_engine, ds_pool, disposed, held>>

\* SqlSession.close
Close(s) ==
    \E e1 \in {NoError, OperationalError} :
    \E e2 \in IF e1 = NoError THEN {NoError, OperationalError} ELSE {NoError} :
        LET r == CloseBody(sessions, conns, s, e1, e2) IN
        /\ call' = ScopeCall("close", s, NoError)
        /\ trace' = r.trace
        /\ sessions' = r.sessions
        /\ conns' = r.conns
        /\ result' = IF r.error = NoError THEN Return(None) ELSE Raise(r.error)
        /\ UNCHANGED <<ds_engine, ds_pool, disposed, held>>

\* SqlSession.__del__: the garbage collector finalizes the object, which calls
\* close(); an error raised inside __del__ is reported on stderr and dropped
Del(s) ==
    \E e1 \in {NoError, OperationalError} :
    \E e2 \in IF e1 = NoError THEN {NoError, OperationalError} ELSE {NoError} :
        LET r == CloseBody(sessions, conns, s, e1, e2) IN
        /\ call' = ScopeCall("del", s, NoError)
        /\ trace' = r.trace
        /\ sessions' = [r.sessions EXCEPT ![s].finalized = TRUE]
        /\ conns' = r.conns
        /\ result' = Return(None)
        /\ UNCHANGED <<ds_engine, ds_pool, disposed, held>>

\* SqlSession.init called again by the holder of the session, with a Connection
\* c it got from a session's get_connection(): rebinds _data_source and
\* _connection and builds a new engine Session over c
SessionInit(s, c) ==
    /\ call' = [op |-> "Session.init", sid |-> s, connection |-> c]
    /\ trace' = <<Ev("Session", NoError)>>
    /\ sessions' = [sessions EXCEPT ![s].data_source = "ds", ![s].connection = c,
                                    ![s].uncommitted = 0]
    /\ result' = Return(None)
    /\ UNCHANGED <<ds_engine, ds_pool, disposed, conns, held>>

\* Exit that rolls back instead of committing when the body raised
Exit_RollsBackOnError(s, exc) ==
    \E e0, e1 \in {NoError, OperationalError} :
    \E e2 \in IF e1 = NoError THEN {NoError, OperationalError} ELSE {NoError} :
        LET ss0 == IF exc = NoError THEN SessionCommit(sessions, s, e0)
                   ELSE SessionDiscard(sessions, s, e0)
            cs0 == Invalidate(conns, sessions[s].connection, e0)
            r == CloseBody(ss0, cs0, s, e1, e2)
        IN
        /\ call' = ScopeCall("exit", s, exc)
        /\ trace' = <<Ev(IF exc = NoError THEN "Session.commit" ELSE "Session.rollback", e0)>>
                    \o r.trace
        /\ sessions' = r.sessions
        /\ conns' = r.conns
        /\ result' = IF r.error # NoError THEN Raise(r.error)
                     ELSE IF exc # NoError THEN Raise(exc)
                     ELSE Return(None)
        /\ UNCHANGED <<ds_engine, ds_pool, disposed, held>>

\* Exit with close() inside the try, after commit(): a failed commit skips it
Exit_CommitGuardsClose(s, exc) ==
    \E e0, e1 \in {NoError, OperationalError} :
    \E e2 \in IF e1 = NoError THEN {NoError, OperationalError} ELSE {NoError} :
        LET ss0 == SessionCommit(sessions, s, e0)
            cs0 == Invalidate(conns, sessions[s].connection, e0)
            r == IF e0 = NoError THEN CloseBody(ss0, cs0, s, e1, e2)
                 ELSE [sessions |-> ss0, conns |-> cs0, trace |-> <<>>, error |-> NoError]
        IN
        /\ call' = ScopeCall("exit", s, exc)
        /\ trace' = <<Ev("Session.commit", e0)>> \o r.trace
        /\ sessions' = r.sessions
        /\ conns' = r.conns
        /\ result' = IF r.error # NoError THEN Raise(r.error)
                     ELSE IF exc # NoError THEN Raise(exc)
                     ELSE Return(None)
        /\ UNCHANGED <<ds_engine, ds_pool, disposed, held>>

\* SqlSession.__exit__ on leaving a with-block whose body ended with exc (NoError:
\* normally).  commit() in a try that prints any error, then close(); __exit__
\* returns None, so the body's error, if any, propagates afterwards.
Exit(s, exc) ==
    \E e0, e1 \in {NoError, OperationalError} :
    \E e2 \in IF e1 = NoError THEN {NoError, OperationalError} ELSE {NoError} :
        LET ss0 == SessionCommit(sessions, s, e0)
            cs0 == Invalidate(conns, sessions[s].connection, e0)
            r == CloseBody(ss0, cs0, s, e1, e2)
        IN
        /\ call' = ScopeCall("exit", s, exc)
        /\ trace' = <<Ev("Session.commit", e0)>> \o r.trace
        /\ sessions' = r.sessions
        /\ conns' = r.conns
        /\ result' = IF r.error # NoError THEN Raise(r.error)
                     ELSE IF exc # NoError THEN Raise(exc)
                     ELSE Return(None)
        /\ UNCHANGED <<ds_engine, ds_pool, disposed, held>>

\* What self._connection.execute(text(sql), params) followed by reading
\* result.cursor.description and fetching can do: an engine error; rows of a
\* table; or a statement that returns no rows, whose result has no cursor.
QueryOutcomes(c) ==
    {[error |-> e, cursor |-> FALSE, table |-> [columns |-> <<>>, rows |-> <<>>]] :
        e \in StatementErrors(c)}
    \cup (IF conns[c].closed THEN {} ELSE
          {[error |-> NoError, cursor |-> TRUE, table |-> t] : t \in Tables}
          \cup {[error |-> NoError, cursor |-> FALSE,
                 table |-> [columns |-> <<>>, rows |-> <<>>]]})

\* SelectRaise with a single except clause that wraps whatever was raised
SelectRaise_WrapsAll(e) ==
    Raise(DataSourceError("database select Error", e.type, e.code))

\* the except clauses of select / select_one: an engine error is wrapped with the
\* original error and its code, anything else is re-raised as it is
SelectRaise(e) ==
    IF IsEngineError(e)
    THEN Raise(DataSourceError("database select Error", e.type, e.code))
    ELSE Raise(e)

\* the value select / select_one builds: fetchall() or fetchone()
QueryResult(t, one) ==
    [column_names |-> t.columns,
     data |-> IF ~one THEN t.rows ELSE IF Len(t.rows) = 0 THEN None ELSE t.rows[1]]

\* SqlSession.select and SqlSession.select_one (one = TRUE)
SelectBody(s, one) ==
    \E o \in QueryOutcomes(sessions[s].connection) :
        /\ call' = Call(IF one THEN "select_one" ELSE "select", s)
        /\ trace' = IF o.error # NoError THEN <<Ev("Connection.execute", o.error)>>
                    ELSE <<Ev("Connection.execute", NoError),
                           Ev("cursor.description", IF o.cursor THEN NoError ELSE AttributeError)>>
        /\ conns' = Invalidate(conns, sessions[s].connection, o.error)
        /\ result' = IF o.error # NoError THEN SelectRaise(o.error)
                     ELSE IF ~o.cursor THEN SelectRaise(AttributeError)
                     ELSE Return(QueryResult(o.table, one))
        /\ UNCHANGED <<ds_engine, ds_pool, disposed, sessions, held>>

Select(s) == SelectBody(s, FALSE)

SelectOne(s) == SelectBody(s, TRUE)

\* the except clauses of insert / execute: result = False, then an engine error
\* is wrapped (its code passed as the second argument), anything else re-raised
WriteRaise(e) ==
    IF IsEngineError(e)
    THEN Raise(DataSourceError("database select Error", e.code, None))
    ELSE Raise(e)

\* FinallyReturn with "return True" in the finally clause
FinallyReturn_True(pending, value) == Return(TRUE)

\* "finally: return result": the return in the finally clause replaces whatever
\* the try and except clauses were about to raise
FinallyReturn(pending, value) == Return(value)

\* WriteBody calling self.rollback() in its except clauses
WriteBody_RollsBack(s, op) ==
    /\ sessions[s].uncommitted + sessions[s].committed < MaxStmts
    /\ \E e1 \in {NoError, TypeError} \cup StatementErrors(sessions[s].connection) :
       \E e2 \in IF e1 = NoError THEN {NoError, OperationalError} ELSE {NoError} :
        LET failed == IF e1 # NoError THEN e1 ELSE e2 IN
        /\ call' = Call(op, s)
        /\ trace' = IF e1 # NoError
                    THEN <<Ev("Session.execute", e1), Ev("Session.rollback", NoError)>>
                    ELSE IF e2 # NoError
                    THEN <<Ev("Session.execute", e1), Ev("Session.commit", e2),
                           Ev("Session.rollback", NoError)>>
                    ELSE <<Ev("Session.execute", e1), Ev("Session.commit", e2)>>
        /\ sessions' = IF failed # NoError THEN SessionDiscard(sessions, s, NoError)
                       ELSE [sessions EXCEPT ![s].committed = @ + sessions[s].uncommitted + 1,
                                             ![s].uncommitted = 0]
        /\ conns' = Invalidate(conns, sessions[s].connection, failed)
        /\ result' = IF failed = NoError THEN Return(TRUE) ELSE Return(FALSE)
        /\ UNCHANGED <<ds_engine, ds_pool, disposed, held>>

\* SqlSession.insert and SqlSession.execute: self._session.execute(...) ending
\* with e1, then self.commit() ending with e2
WriteBody(s, op) ==
    /\ sessions[s].uncommitted + sessions[s].committed < MaxStmts
    /\ \E e1 \in {NoError, TypeError} \cup StatementErrors(sessions[s].connection) :
       \E e2 \in IF e1 = NoError THEN {NoError, OperationalError} ELSE {NoError} :
        LET c == sessions[s].connection
            ss1 == IF e1 = NoError
                   THEN [sessions EXCEPT ![s].uncommitted = @ + 1] ELSE sessions
            failed == IF e1 # NoError THEN e1 ELSE e2
        IN
        /\ call' = Call(op, s)
        /\ trace' = IF e1 # NoError THEN <<Ev("Session.execute", e1)>>
                    ELSE <<Ev("Session.execute", e1), Ev("Session.commit", e2)>>
        /\ sessions' = IF e1 # NoError THEN sessions ELSE SessionCommit(ss1, s, e2)
        /\ conns' = Invalidate(conns, c, failed)
        /\ result' = IF failed = NoError THEN FinallyReturn(Return(TRUE), TRUE)
                     ELSE FinallyReturn(WriteRaise(failed), FALSE)
        /\ UNCHANGED <<ds_engine, ds_pool, disposed, held>>

Insert(s) == WriteBody(s, "insert")

Execute(s) == WriteBody(s, "execute")

\* a concrete DAO passing what select has just returned to AbstractDAO.map:
\* dao.map(session.select(sql))
MapSelected ==
    /\ call.op = "select"
    /\ result.kind = "return"
    /\ call' = [op |-> "map", sid |-> 0, inp |-> result.value]
    /\ trace' = <<>>
    /\ result' = Map(result.value)
    /\ UNCHANGED <<ds_engine, ds_pool, disposed, sessions, conns, held>>

\* a concrete DAO reshaping the QueryResult it holds with AbstractDAO.map
MapHeld ==
    /\ held # NoHeld
    /\ call' = Call("map", 0)
    /\ trace' = <<>>
    /\ result' = Map(held)
    /\ UNCHANGED <<ds_engine, ds_pool, disposed, sessions, conns, held>>

\* a concrete DAO bucketing the QueryResult it holds with AbstractDAO.hash_map
HashMapHeld(key_column) ==
    /\ held # NoHeld
    /\ call' = [op |-> "hash_map", sid |-> 0, key_column |-> key_column]
    /\ trace' = <<>>
    /\ result' = HashMap(held, key_column)
    /\ UNCHANGED <<ds_engine, ds_pool, disposed, sessions, conns, held>>

Next ==
    \/ DsInit
    \/ GetSession(MaxSessions)
    \/ \E s \in LiveIds \cup {0} : ReleaseSession(s)
    \/ DsClose
    \/ \E s \in LiveIds : Commit(s)
    \/ \E s \in LiveIds : Rollback(s)
    \/ \E s \in LiveIds : Close(s)
    \/ \E s \in LiveIds : \E exc \in {NoError, BodyError} : Exit(s, exc)
    \/ \E s \in LiveIds : Select(s)
    \/ \E s \in LiveIds : SelectOne(s)
    \/ \E s \in LiveIds : Insert(s)
    \/ \E s \in LiveIds : Execute(s)
    \/ MapSelected

\* every call a caller makes while it holds one borrowed SqlSession
Spec == Init /\ [][Next]_vars

\* the pool lifecycle: sessions are borrowed, given back and garbage-collected,
\* nothing is queried
NextPool ==
    \/ DsInit
    \/ GetSession(MaxPoolSessions)
    \/ \E s \in LiveIds \cup {0} : ReleaseSession(s)
    \/ DsClose
    \/ \E s \in LiveIds : Close(s)
    \/ \E s \in LiveIds : \E exc \in {NoError, BodyError} : Exit(s, exc)
    \/ \E s \in LiveIds : Del(s)

SpecPool == Init /\ [][NextPool]_vars

\* the pool lifecycle with callers that also call SqlSession.init themselves
NextRebind ==
    \/ NextPool
    \/ \E s \in LiveIds : \E c \in ConnIds : SessionInit(s, c)

SpecRebind == Init /\ [][NextRebind]_vars

\* the row mapper alone, on every QueryResult within the bounds
SeqsUpTo(S, n) == UNION {[1..k -> S] : k \in 0..n}

\* {"columns": [...], "data": [...]} with at most cols columns and rows rows,
\* every row as long as the columns
QueryResults(cols, rows) ==
    UNION {{[columns |-> c, data |-> d] : d \in SeqsUpTo([1..Len(c) -> CellValues], rows)} :
            c \in SeqsUpTo(ColNames, cols)}

InitMap ==
    /\ ds_engine = None
    /\ ds_pool = None
    /\ disposed = FALSE
    /\ sessions = <<>>
    /\ conns = <<>>
    /\ call = Call("none", 0)
    /\ trace = <<>>
    /\ result = Return(None)
    /\ held \in QueryResults(MaxCols, MaxRows)

NextMap ==
    \/ MapHeld
    \/ \E key_column \in ColNames : HashMapHeld(key_column)

SpecMap == InitMap /\ [][NextMap]_vars

\* ================================================================== claims
DataSourceGuarded == {"get_session", "release_session", "DataSource.close"}
DataOps == {"select", "select_one", "insert", "execute"}
WriteOps == {"insert", "execute"}
SelectOps == {"select", "select_one"}

\* the error of the engine call (or result read) that failed in the last call
TraceFailure == trace[Len(trace)].error

\* C1: on a DataSource whose engine was never bound, get_session,
\* release_session and close each raise the DataSourceError "pool not
\* initialized", having made no engine call and created no SqlSession.
C1_UninitializedFailsFast ==
    [][(~IsInitialized /\ call'.op \in DataSourceGuarded) =>
         /\ result' = Raise(DataSourceError(NotInitializedMessage, None, None))
         /\ trace' = <<>>
         /\ sessions' = sessions
         /\ conns' = conns]_vars

C1_Witness ==
    /\ ~IsInitialized
    /\ call.op = "get_session"
    /\ result.kind = "raise"

\* C2: a data operation on a SqlSession whose connection is closed finds
\* is_available false and raises the DataSourceError "connection not
\* available" from the availability guard, before any engine call.
C2_ClosedSessionFailsFast ==
    (/\ call.op \in DataOps
     /\ conns[sessions[call.sid].connection].closed) =>
        /\ ~IsAvailable(call.sid)
        /\ result = Raise(CheckAvailability(call.sid))
        /\ trace = <<>>

\* C3: when the engine fails during insert or execute, in the statement or in
\* the commit, the call ends by raising DataSourceError.
C3_WriteFailureRaises ==
    (/\ call.op \in WriteOps
     /\ Len(trace) > 0
     /\ IsEngineError(TraceFailure)) =>
        /\ result.kind = "raise"
        /\ result.error.type = "DataSourceError"

\* C4: once DataSource.close() has completed, every later get_session,
\* release_session and close on that DataSource raises DataSourceError.
C4_ClosedDataSourceRefuses ==
    [][(disposed /\ call'.op \in DataSourceGuarded) =>
         /\ result'.kind = "raise"
         /\ result'.error.type = "DataSourceError"]_vars

\* C5: leaving a SqlSession scope attempts commit first and then always calls
\* close, whether or not the commit failed and whether or not anything was
\* written; a commit failure alone never reaches the caller.
C5_ExitCommitsThenCloses ==
    call.op = "exit" =>
        /\ Len(trace) >= 2
        /\ trace[1].fn = "Session.commit"
        /\ trace[2].fn = "Session.close"
        /\ \A i \in 3..Len(trace) : trace[i].fn = "Connection.close"
        /\ (\A i \in 2..Len(trace) : trace[i].error = NoError) =>
              /\ Len(trace) = 3
              /\ result \in {Return(None), Raise(BodyError)}

C5_Witness ==
    /\ call.op = "exit"
    /\ trace = <<Ev("Session.commit", OperationalError), Ev("Session.close", NoError),
                 Ev("Connection.close", NoError)>>
    /\ result = Return(None)
    /\ sessions[call.sid].committed = 0
    /\ conns[sessions[call.sid].connection].closed

\* C6: the value select returns for columns [id, name] and rows (1,a),(2,b),
\* passed unchanged to map, yields [{id:1,name:a},{id:2,name:b}].
C6_SelectResultMaps ==
    (/\ call.op = "map"
     /\ call.inp = QueryResult([columns |-> ScenarioColumns, rows |-> ScenarioRows], FALSE)) =>
        result = Return(<<[id |-> 1, name |-> "a"], [id |-> 2, name |-> "b"]>>)

\* C7: a get_session that returns yields the newest SqlSession, bound to the
\* DataSource over the Connection the engine has just handed out; and no two
\* available SqlSessions hold the same Connection or the same pooled connection.
C7_DistinctConnections ==
    /\ (call.op = "get_session" /\ result.kind = "return") =>
          /\ result.value = Len(sessions)
          /\ sessions[result.value].data_source = "ds"
          /\ sessions[result.value].connection = Len(conns)
          /\ trace = <<Ev("Engine.connect", NoError)>>
    /\ \A s, t \in SessionIds :
          (s # t /\ IsAvailable(s) /\ IsAvailable(t)) =>
             /\ sessions[s].connection # sessions[t].connection
             /\ conns[sessions[s].connection].dbapi # conns[sessions[t].connection].dbapi

C7_Witness ==
    /\ Len(sessions) >= 2
    /\ IsAvailable(1)
    /\ IsAvailable(2)
    /\ call.op = "get_session"
    /\ result.kind = "return"

\* C8: in select and select_one an engine failure is raised as a
\* DataSourceError carrying the original error and its code, any other failure
\* is raised as it is, and the call commits, rolls back and closes nothing.
C8_SelectErrors ==
    [][call'.op \in SelectOps =>
         /\ \A i \in 1..Len(trace') :
               trace'[i].fn \in {"Connection.execute", "cursor.description"}
         /\ sessions' = sessions
         /\ \A c \in ConnIds : conns'[c].closed = conns[c].closed
         /\ LET f == trace'[Len(trace')].error IN
            /\ IsEngineError(f) =>
                  result' = Raise(DataSourceError("database select Error", f.type, f.code))
            /\ (f # NoError /\ ~IsEngineError(f)) => result' = Raise(f)
            /\ f = NoError => result'.kind = "return"]_vars

C8_Witness ==
    /\ call.op = "select_one"
    /\ trace = <<Ev("Connection.execute", NoError), Ev("cursor.description", AttributeError)>>
    /\ result = Raise(AttributeError)

\* C9: an insert or execute that returns true has run the statement and then
\* the commit, in that order and both successfully, and leaves none of the
\* session's work uncommitted; and whenever both succeed it returns true.
C9_WriteCommits ==
    call.op \in WriteOps =>
        /\ result.kind = "return"
        /\ result.value = TRUE =>
              /\ trace = <<Ev("Session.execute", NoError), Ev("Session.commit", NoError)>>
              /\ sessions[call.sid].uncommitted = 0
        /\ (Len(trace) = 2 /\ TraceFailure = NoError) => result.value = TRUE

C9_Witness ==
    /\ call.op = "insert"
    /\ result = Return(TRUE)
    /\ sessions[call.sid].committed > 0

\* the mappings map returned line up with the held QueryResult: one per row, in
\* row order, keyed by exactly the N column names, each value at its position
MapAligned ==
    LET N == Len(held.columns)
        M == Len(held.data)
    IN
    /\ result.kind = "return"
    /\ Len(result.value) = M
    /\ \A r \in 1..M :
          /\ DOMAIN result.value[r] = {held.columns[i] : i \in 1..N}
          /\ Cardinality(DOMAIN result.value[r]) = N
          /\ \A i \in 1..N : result.value[r][held.columns[i]] = held.data[r][i]

RowsFitColumns == \A r \in 1..Len(held.data) : Len(held.data[r]) = Len(held.columns)

DistinctColumns ==
    \A i, j \in 1..Len(held.columns) : held.columns[i] = held.columns[j] => i = j

\* C10 as stated: for any QueryResult with N columns and M rows of length N,
\* map yields M mappings in row order, each with exactly the N column names as
\* keys and the row's values aligned to them.
C10_MapShape ==
    (call.op = "map" /\ RowsFitColumns) => MapAligned

\* C10: the same for a QueryResult whose N column names are pairwise distinct.
C10_MapShapeDistinct ==
    (call.op = "map" /\ RowsFitColumns /\ DistinctColumns) => MapAligned

C10_Witness ==
    /\ call.op = "map"
    /\ RowsFitColumns
    /\ DistinctColumns
    /\ Len(held.columns) = 2
    /\ Len(held.data) = 2
    /\ held.data[1] # held.data[2]
    /\ held.data[1][1] # held.data[1][2]
    /\ result.kind = "return"

\* the rows hash_map bucketed: map of the held QueryResult
Mapped == Map(held).value

\* the rows of map(result) whose key_column value is k, in their original order
RowsWithKey(k) == SelectSeq(Mapped, LAMBDA row : row[call.key_column] = k)

RECURSIVE ConcatBuckets(_, _)
\* the buckets from the i-th on, concatenated in the order of the dict
ConcatBuckets(res, i) ==
    IF i > Len(res) THEN <<>> ELSE res[i].values \o ConcatBuckets(res, i + 1)

\* C11: hash_map partitions map(result): the bucket keys are distinct, every
\* mapped row's key_column value has a bucket, and each bucket is non-empty and
\* holds exactly the mapped rows with its key, in their original relative order.
C11_HashMapPartitions ==
    (call.op = "hash_map" /\ result.kind = "return") =>
        LET res == result.value IN
        /\ \A i, j \in 1..Len(res) : res[i].key = res[j].key => i = j
        /\ \A r \in 1..Len(Mapped) :
              \E i \in 1..Len(res) : res[i].key = Mapped[r][call.key_column]
        /\ \A i \in 1..Len(res) :
              /\ Len(res[i].values) > 0
              /\ res[i].values = RowsWithKey(res[i].key)

C11_Witness ==
    /\ call.op = "hash_map"
    /\ result.kind = "return"
    /\ Len(result.value) = 2
    /\ Len(result.value[1].values) = 2
    /\ result.value[1].values[1] # result.value[1].values[2]
    /\ Mapped[2] = result.value[2].values[1]

\* rows of map(result) with the same key_column value are next to each other
KeysContiguous ==
    \A i, j, k \in 1..Len(Mapped) :
        (i < j /\ j < k /\ Mapped[i][call.key_column] = Mapped[k][call.key_column]) =>
            Mapped[j][call.key_column] = Mapped[i][call.key_column]

\* C12 as stated: the buckets of hash_map, concatenated in first-seen bucket
\* order, are map(result) in its original row order.
C12_ConcatIsMap ==
    (call.op = "hash_map" /\ result.kind = "return") =>
        ConcatBuckets(result.value, 1) = Mapped

\* C12: the same when the rows sharing a key_column value are adjacent in
\* map(result).
C12_ConcatIsMapContiguous ==
    (call.op = "hash_map" /\ result.kind = "return" /\ KeysContiguous) =>
        ConcatBuckets(result.value, 1) = Mapped

C12_Witness ==
    /\ call.op = "hash_map"
    /\ result.kind = "return"
    /\ KeysContiguous
    /\ Len(Mapped) = 3
    /\ Len(result.value) = 2
    /\ Len(result.value[1].values) = 2
    /\ result.value[1].values[1] # result.value[1].values[2]

\* the engine calls of the last operation that satisfy a predicate on their name
TraceCalls(t, fns) == {i \in 1..Len(t) : t[i].fn \in fns}

CloseCalls == {"Session.close", "Connection.close"}
ScopeOps == {"close", "exit", "del"}

\* C13 as stated: release_session returns normally in every DataSource state,
\* for every Session argument.
C13_ReleaseNeverRaises ==
    call.op = "release_session" => result.kind = "return"

\* C13: on an initialized DataSource, closed or not, release_session returns
\* normally for every Session argument, a non-Session or a closed Session included.
C13_ReleaseReturnsWhenInitialized ==
    (call.op = "release_session" /\ IsInitialized) =>
        (result = Return(None) /\ trace = <<>>)

C13_Witness ==
    /\ call.op = "release_session"
    /\ IsInitialized
    /\ disposed
    /\ call.sid \in SessionIds
    /\ ~IsAvailable(call.sid)
    /\ result = Return(None)

C16_CloseNeverCommits ==
    [][call'.op = "close" =>
          /\ TraceCalls(trace', {"Session.commit"}) = {}
          /\ trace'[1].fn = "Session.close"
          /\ Len(trace') <= 2
          /\ Len(trace') = 2 =>
                (trace'[1].error = NoError /\ trace'[2].fn = "Connection.close")
          /\ trace'[1].error = NoError => Len(trace') = 2
          /\ sessions'[call'.sid].committed = sessions[call'.sid].committed]_vars

C16_Witness ==
    /\ call.op = "close"
    /\ call.pending > 0
    /\ trace = <<Ev("Session.close", NoError), Ev("Connection.close", NoError)>>
    /\ sessions[call.sid].committed = 0
    /\ result = Return(None)

\* C18 as stated: when the scope is exited by an error of the body, commit is
\* attempted before close, the work pending in the scope is committed, and the
\* error of the body is what the caller gets after close.
C18_BodyErrorCommitsAndPropagates ==
    (call.op = "exit" /\ call.exc # NoError) =>
        /\ Len(trace) >= 2
        /\ trace[1].fn = "Session.commit"
        /\ trace[2].fn = "Session.close"
        /\ sessions[call.sid].committed >= call.pending
        /\ result = Raise(call.exc)

\* C18: when the scope is exited by an error of the body, commit is attempted
\* before close and nothing is rolled back; if the commit succeeds the work
\* pending in the scope is committed; the error of the body is what the caller
\* gets after close, unless close itself raises, and then the caller gets the
\* error of close.
C18_BodyErrorCommitAttempted ==
    [][(call'.op = "exit" /\ call'.exc # NoError) =>
          LET s == call'.sid
              failed == {i \in TraceCalls(trace', CloseCalls) : trace'[i].error # NoError}
          IN
          /\ Len(trace') >= 2
          /\ trace'[1].fn = "Session.commit"
          /\ trace'[2].fn = "Session.close"
          /\ TraceCalls(trace', {"Session.rollback"}) = {}
          /\ trace'[1].error = NoError =>
                sessions'[s].committed = sessions[s].committed + sessions[s].uncommitted
          /\ trace'[1].error # NoError =>
                sessions'[s].committed = sessions[s].committed
          /\ failed = {} => result' = Raise(call'.exc)
          /\ failed # {} => result' = Raise(trace'[Len(trace')].error)]_vars

C18_Witness ==
    /\ call.op = "exit"
    /\ call.exc = BodyError
    /\ call.pending > 0
    /\ trace = <<Ev("Session.commit", NoError), Ev("Session.close", NoError),
                 Ev("Connection.close", NoError)>>
    /\ sessions[call.sid].committed = call.pending
    /\ result = Raise(BodyError)

\* C19: the layer never rolls back on its own. The engine's rollback is called
\* only by Session.rollback(); a data operation or a scope exit that fails
\* keeps the work the engine session holds uncommitted.
C19_RollbackOnlyExplicit ==
    [][/\ TraceCalls(trace', {"Session.rollback"}) # {} => call'.op = "rollback"
       /\ (call'.op \in SelectOps \cup {"commit"} /\ result'.kind = "raise") =>
             sessions' = sessions
       /\ (call'.op \in WriteOps /\ result' = Return(FALSE)) =>
             /\ sessions'[call'.sid].uncommitted >= sessions[call'.sid].uncommitted
             /\ sessions'[call'.sid].committed = sessions[call'.sid].committed
       /\ (call'.op \in WriteOps /\ result' = Return(FALSE) /\ Len(trace') = 2) =>
             sessions'[call'.sid].uncommitted = sessions[call'.sid].uncommitted + 1]_vars

C19_Witness ==
    /\ call.op = "insert"
    /\ trace = <<Ev("Session.execute", NoError), Ev("Session.commit", OperationalError)>>
    /\ sessions[call.sid].uncommitted = 1
    /\ sessions[call.sid].committed = 0
    /\ result = Return(FALSE)

\* the session whose connection is closed has been closed
Closed(s) == conns[sessions[s].connection].closed

\* C14: a Session closes once. After its engine session and connection were
\* closed by close(), by the scope exit or by finalization, another of the
\* three does not call the engine's close again.
C14_CloseOnce ==
    [][\A s \in SessionIds :
          (Closed(s) /\ call'.op \in ScopeOps /\ call'.sid = s) =>
              TraceCalls(trace', CloseCalls) = {}]_vars

\* C15: closed is terminal. Once a Session is closed, no operation of the
\* Session makes is_available true again or binds it to another connection.
C15_ClosedIsTerminal ==
    [][\A s \in SessionIds :
          Closed(s) =>
              /\ ~IsAvailable(s)'
              /\ sessions'[s].connection = sessions[s].connection]_vars

\* C20: DataSource.close() leaves the sessions it lent out and their
\* connections as they were, and a Session's connection gets closed only in a
\* close(), a scope exit or a finalization of that Session.
C20_DsCloseLeavesSessions ==
    [][/\ call'.op = "DataSource.close" =>
             /\ sessions' = sessions
             /\ conns' = conns
             /\ \A s \in SessionIds : IsAvailable(s)' = IsAvailable(s)
       /\ \A s \in SessionIds :
             (~Closed(s) /\ Closed(s)') =>
                 (call'.op \in ScopeOps /\ call'.sid = s)]_vars

C20_Witness ==
    /\ call.op = "DataSource.close"
    /\ result = Return(None)
    /\ disposed
    /\ Len(sessions) = MaxPoolSessions
    /\ \A s \in SessionIds : IsAvailable(s)

====
